---- MODULE Spec2Model ----
(***************************************************************************)
(* Model of the Radio widget (src/ui/widget/radio.rs) and of the Widget    *)
(* contract it implements (src/ui/core/widget.rs).                         *)
(*                                                                         *)
(* Three specifications share the operators translated from the widget:    *)
(*   Spec       - a column of radios built from one application selection, *)
(*                events dispatched to the children in child order, the    *)
(*                application applying the messages and rebuilding;        *)
(*   SpecLayout - rebuilds of one Radio against the layout-hash cache of   *)
(*                the runtime;                                             *)
(*   SpecDraw   - Radio::draw on resolved layouts of any child count.      *)
(* Coordinates are f32 in the source; the values used here are small       *)
(* integers, which f32 represents and subtracts exactly.                   *)
(***************************************************************************)
EXTENDS Integers, Sequences, FiniteSets, TLC

VARIABLES
    selected_choice,  \* application state: the Option<Choice> passed to Radio::new
    built_selected,   \* the `selected` argument the current tree was built with
    tree,             \* the children of the column: a sequence of Radio values
    layout,           \* resolved bounds of each child (Layout::bounds of child i)
    messages,         \* the Vec<Message> shared by all on_event calls
    dispatch,         \* the event being dispatched and the next child to visit
    radio,            \* SpecLayout / SpecDraw: the Radio of the current tree
    previous,         \* SpecLayout: the Radio of the tree the last rebuild replaced
    hasher,           \* SpecLayout: what the current Radio fed to the Hasher
    cache,            \* SpecLayout: the runtime's stored layout hash and the Node laid out
    relayout,         \* SpecLayout: what the last frame did ("none", "skipped", "computed")
    draw_call,        \* SpecDraw: the layout and cursor position of the last draw call
    renderer          \* SpecDraw: outcome of the last draw call and the commands it emitted

vars == <<selected_choice, built_selected, tree, layout, messages, dispatch,
          radio, previous, hasher, cache, relayout, draw_call, renderer>>

eventVars == <<selected_choice, built_selected, tree, layout, messages, dispatch>>
layoutVars == <<previous, hasher, cache, relayout>>
drawVars == <<draw_call, renderer>>

----------------------------------------------------------------------------
(* Bounds of the model *)

\* most messages the shared list holds before the application drains it
MaxMessages == 6

\* most children a resolved layout handed to draw has
MaxChildren == 3

----------------------------------------------------------------------------
(* Values *)

\* enum Choice of the doc example, in the order the radios are pushed
ChoiceSeq == <<"A", "B", "C">>
NumRadios == Len(ChoiceSeq)
Choices == {ChoiceSeq[i] : i \in 1..NumRadios}

\* Option<V>
None == [tag |-> "None"]
Some(v) == [tag |-> "Some", value |-> v]
Options == {None} \cup {Some(c) : c \in Choices}

\* Message::RadioSelected, the function f handed to Radio::new
RadioSelected == [v \in Choices |-> [tag |-> "RadioSelected", choice |-> v]]

WHITE == "WHITE"
BLACK == "BLACK"
Colors == {WHITE, BLACK}

\* label texts: strings as sequences of bytes
Labels == {<<>>, <<97>>, <<97, 98>>, <<98>>, <<98, 97>>}
LabelOf(c) == IF c = "A" THEN <<97>> ELSE IF c = "B" THEN <<98>> ELSE <<97, 98>>

\* Event: mouse button transitions, cursor motion, keyboard input
MouseInput(b, s) == [kind |-> "Mouse", mouse |-> "Input", button |-> b, state |-> s]
CursorMoved == [kind |-> "Mouse", mouse |-> "CursorMoved"]
KeyboardInput == [kind |-> "Keyboard"]
NoEvent == [kind |-> "None"]
Events == {MouseInput(b, s) : b \in {"Left", "Right"}, s \in {"Pressed", "Released"}}
            \cup {CursorMoved, KeyboardInput}

Point(px, py) == [x |-> px, y |-> py]
Rectangle(rx, ry, w, h) == [x |-> rx, y |-> ry, width |-> w, height |-> h]

\* bounds the layout service may resolve for a child; the two overlap in x 2..4
Rects == {Rectangle(0, 0, 4, 2), Rectangle(2, 0, 4, 2)}
\* cursor positions: inside the first only, inside both, inside the second only, outside
Cursors == {Point(1, 1), Point(3, 1), Point(5, 1), Point(7, 1)}

\* Rectangle::contains
contains(r, p) ==
    /\ r.x <= p.x
    /\ p.x <= r.x + r.width
    /\ r.y <= p.y
    /\ p.y <= r.y + r.height

----------------------------------------------------------------------------
(* Radio *)

\* faulty variant: selected as soon as anything is selected
new_any_selection(value, label, selected, f) ==
    [is_selected |-> (selected /= None),
     on_click    |-> f[value],
     label       |-> label,
     label_color |-> WHITE]

\* Radio::new
new(value, label, selected, f) ==
    [is_selected |-> (Some(value) = selected),
     on_click    |-> f[value],
     label       |-> label,
     label_color |-> WHITE]

\* Radio::label_color
label_color(self, color) == [self EXCEPT !.label_color = color]

IsLeftPress(event) ==
    /\ event.kind = "Mouse"
    /\ event.mouse = "Input"
    /\ event.button = "Left"
    /\ event.state = "Pressed"

\* faulty variant: no test of the cursor position against the bounds
on_event_anywhere(self, event, bounds, cursor_position, msgs) ==
    IF IsLeftPress(event)
    THEN [self |-> self, messages |-> Append(msgs, self.on_click)]
    ELSE [self |-> self, messages |-> msgs]

\* faulty variant: any pressed button is accepted
on_event_any_button(self, event, bounds, cursor_position, msgs) ==
    IF /\ event.kind = "Mouse"
       /\ event.mouse = "Input"
       /\ event.state = "Pressed"
    THEN IF contains(bounds, cursor_position)
         THEN [self |-> self, messages |-> Append(msgs, self.on_click)]
         ELSE [self |-> self, messages |-> msgs]
    ELSE [self |-> self, messages |-> msgs]

\* faulty variant: the widget selects itself when pressed
on_event_self_select(self, event, bounds, cursor_position, msgs) ==
    IF IsLeftPress(event) /\ contains(bounds, cursor_position)
    THEN [self |-> [self EXCEPT !.is_selected = TRUE],
          messages |-> Append(msgs, self.on_click)]
    ELSE [self |-> self, messages |-> msgs]

\* faulty variant: the message is inserted at the front of the list
on_event_push_front(self, event, bounds, cursor_position, msgs) ==
    IF IsLeftPress(event) /\ contains(bounds, cursor_position)
    THEN [self |-> self, messages |-> <<self.on_click>> \o msgs]
    ELSE [self |-> self, messages |-> msgs]

\* Radio::on_event: the widget after the call and the message list after the call
on_event(self, event, bounds, cursor_position, msgs) ==
    IF IsLeftPress(event)
    THEN IF contains(bounds, cursor_position)
         THEN [self |-> self, messages |-> Append(msgs, self.on_click)]
         ELSE [self |-> self, messages |-> msgs]
    ELSE [self |-> self, messages |-> msgs]

----------------------------------------------------------------------------
(* The column of radios, the dispatch of events and the application *)

\* the doc example: one Radio per choice, all built from the same selection
view(selected) ==
    [i \in 1..NumRadios |->
        label_color(new(ChoiceSeq[i], LabelOf(ChoiceSeq[i]), selected, RadioSelected),
                    BLACK)]

Idle == [event |-> NoEvent, cursor_position |-> Point(0, 0), next |-> NumRadios + 1]

InitEvents ==
    /\ selected_choice \in Options
    /\ built_selected = selected_choice
    /\ tree = view(selected_choice)
    /\ layout \in [1..NumRadios -> Rects]
    /\ messages = <<>>
    /\ dispatch = Idle

\* the application rebuilds the tree from its state; the layout is resolved anew
Build ==
    /\ dispatch.next > NumRadios
    /\ messages = <<>>
    /\ tree' = view(selected_choice)
    /\ built_selected' = selected_choice
    /\ layout' \in [1..NumRadios -> Rects]
    /\ dispatch' = Idle
    /\ UNCHANGED <<selected_choice, messages>>

\* the runtime observes an event and starts walking the children
BeginEvent ==
    /\ dispatch.next > NumRadios
    /\ Len(messages) + NumRadios <= MaxMessages
    /\ \E e \in Events, p \in Cursors :
          dispatch' = [event |-> e, cursor_position |-> p, next |-> 1]
    /\ UNCHANGED <<selected_choice, built_selected, tree, layout, messages>>

\* the runtime hands the event to the next child with that child's own bounds
DispatchStep ==
    /\ dispatch.next <= NumRadios
    /\ LET i == dispatch.next
           r == on_event(tree[i], dispatch.event, layout[i],
                         dispatch.cursor_position, messages)
       IN /\ tree' = [tree EXCEPT ![i] = r.self]
          /\ messages' = r.messages
          /\ dispatch' = [dispatch EXCEPT !.next = i + 1]
    /\ UNCHANGED <<selected_choice, built_selected, layout>>

\* the application consumes the messages in order; each one sets the selection
Update ==
    /\ dispatch.next > NumRadios
    /\ messages /= <<>>
    /\ selected_choice' = Some(messages[Len(messages)].choice)
    /\ messages' = <<>>
    /\ dispatch' = Idle
    /\ UNCHANGED <<built_selected, tree, layout>>

----------------------------------------------------------------------------
(* Layout: Radio::node, Radio::hash and the runtime's layout cache *)

\* Vec indexing as in the source: the first element has index 0
InBounds(v, i) == 0 <= i /\ i < Len(v)
Index(v, i) == v[i + 1]

IndicatorSize == 28
Spacing == 15
TextSize == 20
LabelOffset == 2

\* Row::new, Row::spacing, Row::align_items, Row::push and Column / Text as
\* far as Radio::node uses them
Row_new == [kind |-> "Row", spacing |-> 0, align_items |-> "Start", children |-> <<>>]
spacing(row, px) == [row EXCEPT !.spacing = px]
align_items(row, align) == [row EXCEPT !.align_items = align]
push(row, child) == [row EXCEPT !.children = Append(@, child)]
Column_sized(w, h) == [kind |-> "Column", width |-> w, height |-> h]
Text_new(content) == [kind |-> "Text", content |-> content]

\* Radio::node (the renderer is the same for every call and measures text by content)
node(self) ==
    push(push(align_items(spacing(Row_new, Spacing), "Center"),
              Column_sized(IndicatorSize, IndicatorSize)),
         Text_new(self.label))

\* faulty variant: the label colour is folded as well
hash_with_color(self, state) == state \o self.label \o <<255>> \o <<self.label_color>>

\* faulty variant: only the length of the label is folded
hash_label_len(self, state) == state \o <<Len(self.label)>>

\* Radio::hash: str's Hash writes the bytes of the label, then 0xff; the
\* accumulator is the sequence of bytes fed to it, in the order fed
hash(self, state) == state \o self.label \o <<255>>

\* every Radio the application can build from the values of the model
Radios ==
    {label_color(new(v, l, s, RadioSelected), c) :
        v \in Choices, l \in Labels, s \in Options, c \in Colors}

\* one frame: the application rebuilds the Radio, the runtime hashes it, keeps
\* the cached layout when the hash equals the stored one and lays out the
\* Radio's Node otherwise
Frame ==
    \E rebuilt \in Radios :
       LET h == hash(rebuilt, <<>>)
       IN /\ radio' = rebuilt
          /\ previous' = radio
          /\ hasher' = h
          /\ IF h = cache.hash
             THEN /\ cache' = cache
                  /\ relayout' = "skipped"
             ELSE /\ cache' = [hash |-> h, node |-> node(rebuilt)]
                  /\ relayout' = "computed"

----------------------------------------------------------------------------
(* Radio::draw *)

\* resolved layouts handed to draw: the bounds of the widget and of its children
WidgetBounds == {Rectangle(0, 0, 103, 28), Rectangle(0, 40, 103, 28)}
ChildBounds == {Rectangle(0, 0, 28, 28), Rectangle(43, 4, 60, 20)}
ChildLayouts == UNION {[1..n -> [bounds : ChildBounds]] : n \in 0..MaxChildren}
Layouts == [bounds : WidgetBounds, children : ChildLayouts]
DrawCursors == {Point(10, 10), Point(200, 200)}

\* faulty variant: the two children are read in the other order
draw_swapped(self, lay, cursor_position) ==
    LET children == lay.children
    IN IF ~InBounds(children, 1)
       THEN [outcome |-> "panicked", commands |-> <<>>]
       ELSE LET text_bounds == [Index(children, 0).bounds EXCEPT !.y = @ - LabelOffset]
            IN [outcome |-> "returned",
                commands |->
                  << [op |-> "text",
                      bounds |-> text_bounds,
                      content |-> self.label,
                      size |-> TextSize,
                      color |-> self.label_color,
                      horizontal_alignment |-> "Left",
                      vertical_alignment |-> "Top"],
                     [op |-> "radio",
                      cursor_position |-> cursor_position,
                      bounds |-> Index(children, 1).bounds,
                      label_bounds |-> lay.bounds,
                      is_selected |-> self.is_selected] >>]

\* faulty variant: a missing child is replaced by an empty rectangle
draw_defaulting(self, lay, cursor_position) ==
    LET children == lay.children
        child(i) == IF InBounds(children, i) THEN Index(children, i).bounds
                    ELSE Rectangle(0, 0, 0, 0)
        text_bounds == [child(1) EXCEPT !.y = @ - LabelOffset]
    IN [outcome |-> "returned",
        commands |->
          << [op |-> "text",
              bounds |-> text_bounds,
              content |-> self.label,
              size |-> TextSize,
              color |-> self.label_color,
              horizontal_alignment |-> "Left",
              vertical_alignment |-> "Top"],
             [op |-> "radio",
              cursor_position |-> cursor_position,
              bounds |-> child(0),
              label_bounds |-> lay.bounds,
              is_selected |-> self.is_selected] >>]

\* Radio::draw: "panicked" when the index lookup is out of bounds, before
\* anything is emitted; otherwise the text command, then the radio command
\* (the MouseCursor the renderer returns is handed back unchanged and not modelled)
draw(self, lay, cursor_position) ==
    LET children == lay.children
    IN IF ~InBounds(children, 1)
       THEN [outcome |-> "panicked", commands |-> <<>>]
       ELSE LET text_bounds == [Index(children, 1).bounds EXCEPT !.y = @ - LabelOffset]
            IN [outcome |-> "returned",
                commands |->
                  << [op |-> "text",
                      bounds |-> text_bounds,
                      content |-> self.label,
                      size |-> TextSize,
                      color |-> self.label_color,
                      horizontal_alignment |-> "Left",
                      vertical_alignment |-> "Top"],
                     [op |-> "radio",
                      cursor_position |-> cursor_position,
                      bounds |-> Index(children, 0).bounds,
                      label_bounds |-> lay.bounds,
                      is_selected |-> self.is_selected] >>]

NoDrawCall == [layout |-> [bounds |-> Rectangle(0, 0, 0, 0), children |-> <<>>],
               cursor_position |-> Point(0, 0)]

\* the runtime draws the Radio with a resolved layout and the cursor position
Draw ==
    \E lay \in Layouts, p \in DrawCursors :
       /\ draw_call' = [layout |-> lay, cursor_position |-> p]
       /\ renderer' = draw(radio, lay, p)
       /\ UNCHANGED radio

----------------------------------------------------------------------------
(* Specifications *)

EventsAtRest ==
    /\ selected_choice = Some("A")
    /\ built_selected = selected_choice
    /\ tree = view(selected_choice)
    /\ layout = [i \in 1..NumRadios |-> Rectangle(0, 0, 4, 2)]
    /\ messages = <<>>
    /\ dispatch = Idle

LayoutAtRest ==
    /\ previous = radio
    /\ hasher = hash(radio, <<>>)
    /\ cache = [hash |-> hasher, node |-> node(radio)]
    /\ relayout = "none"

DrawAtRest ==
    /\ draw_call = NoDrawCall
    /\ renderer = [outcome |-> "none", commands |-> <<>>]

Init ==
    /\ InitEvents
    /\ radio = view(None)[1]
    /\ LayoutAtRest
    /\ DrawAtRest

Next ==
    \/ Build /\ UNCHANGED <<radio, layoutVars, drawVars>>
    \/ BeginEvent /\ UNCHANGED <<radio, layoutVars, drawVars>>
    \/ DispatchStep /\ UNCHANGED <<radio, layoutVars, drawVars>>
    \/ Update /\ UNCHANGED <<radio, layoutVars, drawVars>>

Spec == Init /\ [][Next]_vars

InitLayout ==
    /\ EventsAtRest
    /\ radio \in Radios
    /\ LayoutAtRest
    /\ DrawAtRest

NextLayout == Frame /\ UNCHANGED <<eventVars, drawVars>>

SpecLayout == InitLayout /\ [][NextLayout]_vars

InitDraw ==
    /\ EventsAtRest
    /\ radio \in Radios
    /\ LayoutAtRest
    /\ DrawAtRest

NextDraw == Draw /\ UNCHANGED <<eventVars, layoutVars>>

SpecDraw == InitDraw /\ [][NextDraw]_vars

----------------------------------------------------------------------------
(* Properties of event handling (Spec) *)

LeftPressed == MouseInput("Left", "Pressed")

\* the step is one on_event call, on child dispatch.next
OnEventCalled ==
    /\ dispatch.next <= NumRadios
    /\ dispatch'.next = dispatch.next + 1

IsPrefix(s, t) == Len(s) <= Len(t) /\ SubSeq(t, 1, Len(s)) = s

\* the child visited last by the dispatch in progress
Visited == dispatch.next - 1

\* C1: on a left-button press, on_event appends exactly one message, the value
\* f(value) built by Radio::new, when the cursor is inside the widget's bounds,
\* and appends nothing when it is outside; this holds for every call.
C1_EventContainment ==
    [][(OnEventCalled /\ dispatch.event = LeftPressed) =>
         LET i == dispatch.next
         IN IF contains(layout[i], dispatch.cursor_position)
            THEN messages' = Append(messages, RadioSelected[ChoiceSeq[i]])
            ELSE messages' = messages]_vars

\* a second accepted press has been appended after the messages of an earlier event
C1_Witness ==
    /\ dispatch.event = LeftPressed
    /\ Visited >= 1
    /\ contains(layout[Visited], dispatch.cursor_position)
    /\ Len(messages) > NumRadios
    /\ messages[Len(messages)] = RadioSelected[ChoiceSeq[Visited]]
    /\ \E k \in 1..(Len(messages) - 1) : messages[k] = messages[Len(messages)]

\* C2: an event that is not a left-button press (another button, a release,
\* cursor motion, a non-mouse event) leaves the message list unchanged,
\* wherever the cursor is.
C2_EventSelectivity ==
    [][(OnEventCalled /\ dispatch.event /= LeftPressed) => messages' = messages]_vars

\* a right-button press inside the bounds of the visited child produced nothing
C2_Witness ==
    /\ dispatch.event = MouseInput("Right", "Pressed")
    /\ Visited = NumRadios
    /\ \A i \in 1..NumRadios : contains(layout[i], dispatch.cursor_position)
    /\ messages = <<>>

\* C3: is_selected is TRUE exactly when selected = Some(value), and no on_event
\* call changes it.
C3_SelectionDerivation ==
    /\ [](\A i \in 1..NumRadios :
             tree[i].is_selected = (built_selected = Some(ChoiceSeq[i])))
    /\ [][OnEventCalled =>
             tree'[dispatch.next].is_selected = tree[dispatch.next].is_selected]_vars

\* an unselected radio accepted a press and is still unselected, another one is selected
C3_Witness ==
    /\ dispatch.event = LeftPressed
    /\ Visited >= 1
    /\ contains(layout[Visited], dispatch.cursor_position)
    /\ messages /= <<>>
    /\ ~tree[Visited].is_selected
    /\ \E j \in 1..NumRadios : tree[j].is_selected

\* C5: every on_event call leaves the list it received as a prefix of the list
\* it returns, and an event all children react to, dispatched in child order,
\* yields their messages in child order.
C5_DispatchOrdering ==
    /\ [][OnEventCalled => IsPrefix(messages, messages')]_vars
    /\ []((/\ dispatch.event = LeftPressed
           /\ dispatch.next = NumRadios + 1
           /\ \A i \in 1..NumRadios : contains(layout[i], dispatch.cursor_position))
          => /\ Len(messages) >= NumRadios
             /\ SubSeq(messages, Len(messages) - NumRadios + 1, Len(messages))
                  = [i \in 1..NumRadios |-> RadioSelected[ChoiceSeq[i]]])

\* all three children reacted to one press
C5_Witness ==
    /\ dispatch.event = LeftPressed
    /\ dispatch.next = NumRadios + 1
    /\ \A i \in 1..NumRadios : contains(layout[i], dispatch.cursor_position)
    /\ messages = <<RadioSelected["A"], RadioSelected["B"], RadioSelected["C"]>>

IndexOf(c) == CHOOSE i \in 1..NumRadios : ChoiceSeq[i] = c

\* C6: at most one radio is selected, the one whose value is the selection the
\* tree was built from; a press inside B while A is selected yields one message
\* selecting B and leaves A selected and B unselected; applying the message
\* leaves the tree alone, and a radio becomes selected only by a rebuild from
\* an application selection equal to its value.
C6_OneWayDataFlow ==
    /\ [](/\ Cardinality({i \in 1..NumRadios : tree[i].is_selected}) <= 1
          /\ \A c \in Choices :
                built_selected = Some(c) => tree[IndexOf(c)].is_selected
          /\ built_selected = None => \A i \in 1..NumRadios : ~tree[i].is_selected)
    /\ [][(/\ OnEventCalled
           /\ dispatch.next = IndexOf("B")
           /\ dispatch.event = LeftPressed
           /\ contains(layout[IndexOf("B")], dispatch.cursor_position)
           /\ built_selected = Some("A"))
          => /\ messages' = Append(messages, RadioSelected["B"])
             /\ tree'[IndexOf("A")].is_selected
             /\ ~tree'[IndexOf("B")].is_selected]_vars
    /\ [][(messages /= <<>> /\ messages' = <<>>)
          => /\ selected_choice' = Some(messages[Len(messages)].choice)
             /\ tree' = tree]_vars
    /\ [][\A i \in 1..NumRadios :
             (~tree[i].is_selected /\ tree'[i].is_selected)
             => /\ selected_choice = Some(ChoiceSeq[i])
                /\ built_selected' = selected_choice]_vars

\* the application has applied the press on B but not rebuilt: A still reports selected
C6_Witness ==
    /\ built_selected = Some("A")
    /\ selected_choice = Some("B")
    /\ messages = <<>>
    /\ tree[IndexOf("A")].is_selected
    /\ ~tree[IndexOf("B")].is_selected

----------------------------------------------------------------------------
(* Properties of the layout hash (SpecLayout) *)

\* C4: the bytes a Radio feeds to the accumulator are the same as those the
\* Radio it replaced fed exactly when the two labels are equal, whatever their
\* is_selected, label_color and on_click are.
C4_HashOfLabelOnly ==
    relayout /= "none" =>
        ((previous.label = radio.label) <=> (hash(previous, <<>>) = hasher))

\* equal labels, every other field different, and the same bytes fed
C4_Witness ==
    /\ relayout /= "none"
    /\ previous.label = radio.label
    /\ previous.is_selected /= radio.is_selected
    /\ previous.label_color /= radio.label_color
    /\ previous.on_click /= radio.on_click
    /\ hasher = hash(previous, <<>>)

\* C7: whenever the runtime skips the relayout because the hash equals the
\* stored one, the Node the rebuilt Radio produces is the Node the retained
\* layout was computed from.
C7_NoStaleLayout ==
    relayout = "skipped" => node(radio) = cache.node

\* a rebuild that changed only colour and selection was skipped
C7_Witness ==
    /\ relayout = "skipped"
    /\ hasher = cache.hash
    /\ previous.label_color /= radio.label_color
    /\ previous.is_selected /= radio.is_selected
    /\ Len(radio.label) = 2

----------------------------------------------------------------------------
(* Properties of Radio::draw (SpecDraw) *)

Drawn == renderer.outcome /= "none"
DrawnChildren == draw_call.layout.children
TextCommand == renderer.commands[1]
RadioCommand == renderer.commands[2]

\* the index at which Radio::node pushed its child of the given kind
PushedAt(n, kind) ==
    CHOOSE i \in 0..(Len(n.children) - 1) : Index(n.children, i).kind = kind

\* the layout has one child per child of the Radio's Node
ResolvedFromNode == Len(DrawnChildren) = Len(node(radio).children)

MovedUp(r, d) == [r EXCEPT !.y = @ - d]

\* C8 as stated: the text renderer receives the bounds of the second pushed
\* child and the radio renderer those of the first pushed child.
C8_AsStated ==
    (Drawn /\ ResolvedFromNode) =>
        /\ renderer.outcome = "returned"
        /\ TextCommand.bounds
             = Index(DrawnChildren, PushedAt(node(radio), "Text")).bounds
        /\ RadioCommand.bounds
             = Index(DrawnChildren, PushedAt(node(radio), "Column")).bounds

\* C8: node pushes the 28x28 indicator container first and the label text
\* second; draw hands the radio renderer the bounds of child 0 and the text
\* renderer the bounds of child 1 moved up by 2.
C8_DrawChildIndex ==
    (Drawn /\ ResolvedFromNode) =>
        /\ renderer.outcome = "returned"
        /\ Index(node(radio).children, 0) = Column_sized(28, 28)
        /\ Index(node(radio).children, 1) = Text_new(radio.label)
        /\ PushedAt(node(radio), "Column") = 0
        /\ PushedAt(node(radio), "Text") = 1
        /\ TextCommand.op = "text"
        /\ TextCommand.content = radio.label
        /\ TextCommand.bounds
             = MovedUp(Index(DrawnChildren, PushedAt(node(radio), "Text")).bounds, 2)
        /\ RadioCommand.op = "radio"
        /\ RadioCommand.bounds
             = Index(DrawnChildren, PushedAt(node(radio), "Column")).bounds

\* a draw on a two-child layout whose children have different bounds
C8_Witness ==
    /\ Drawn
    /\ ResolvedFromNode
    /\ Index(DrawnChildren, 0).bounds = Rectangle(0, 0, 28, 28)
    /\ Index(DrawnChildren, 1).bounds = Rectangle(43, 4, 60, 20)
    /\ TextCommand.bounds = Rectangle(43, 2, 60, 20)
    /\ RadioCommand.bounds = Rectangle(0, 0, 28, 28)

\* C9: the radio renderer receives the cursor position, the bounds of the
\* Radio (the widget or its indicator) as bounds, the bounds of the Radio's
\* label as label_bounds, and the selection flag.
C9_RendererArguments ==
    renderer.outcome = "returned" =>
        /\ RadioCommand.cursor_position = draw_call.cursor_position
        /\ RadioCommand.bounds \in {draw_call.layout.bounds,
                                    Index(DrawnChildren, 0).bounds}
        /\ RadioCommand.label_bounds \in {Index(DrawnChildren, 1).bounds,
                                          MovedUp(Index(DrawnChildren, 1).bounds, 2)}
        /\ RadioCommand.is_selected = radio.is_selected

\* C10: with fewer than two children draw panics and nothing has been emitted
\* to the renderer; with two or more it returns after emitting its two commands.
C10_DrawIndexChecked ==
    Drawn =>
        IF Len(DrawnChildren) < 2
        THEN renderer.outcome = "panicked" /\ renderer.commands = <<>>
        ELSE renderer.outcome = "returned" /\ Len(renderer.commands) = 2

\* a draw on a layout with a single child
C10_Witness ==
    /\ Len(DrawnChildren) = 1
    /\ renderer.outcome = "panicked"
    /\ renderer.commands = <<>>

====
